---- MODULE Spec2Model ----
(***************************************************************************)
(* The flashcard store of flashcards-api: the tables flashcards and        *)
(* user_flashcards, the methods of FlashcardModel that read and write      *)
(* them, and the HTTP handlers that call those methods.                    *)
(*                                                                         *)
(* A table is a function from the keys of its rows to the rows.  The state *)
(* of the tables is the committed state of the database: a statement run   *)
(* with m.DB is one step, a statement run inside a transaction (tx) is     *)
(* held by the worker that runs it until tx.Commit applies it, and is      *)
(* dropped by tx.Rollback.  A row that an open transaction has deleted is  *)
(* locked: a statement of another worker that needs the row waits for the  *)
(* end of that transaction.  A statement is answered by the database; its  *)
(* failure (an error of the driver, the 3 s timeout) is modelled in        *)
(* Insert, whose atomicity depends on it.                                  *)
(*                                                                         *)
(* In Spec the editable columns of a card are carried by the column        *)
(* question, whose value "" ValidateFlashcard rejects; ContentSpec carries *)
(* the text, the categories, the type and the content as well.             *)
(***************************************************************************)
EXTENDS Integers, Sequences, FiniteSets, TLC

\* bounds of the model: the requests served in a run, and the workers serving them
MaxRequests == 3
NumProcs == 2
\* the seconds of a study session (ProgressSpec)
MaxTime == 1
\* the cards of a listed deck (QuerySpec)
MaxCards == 2
\* the options of a multiple-choice content (ContentSpec)
MaxOptions == 2

\* correct_count at which a card is mastered
MasteryThreshold == 5

Procs == 1..NumProcs
Users == {"alice", "bob"}
Questions == {"", "q1", "q2"}
\* the version a create request carries: omitted (0), or 1
ReqVersions == {0, 1}

VARIABLES
    flashcards,       \* table flashcards: id -> [question, version]
    user_flashcards,  \* table user_flashcards: <<user_id, flashcard_id>> ->
                      \*    [correct_count, status, last_reviewed_at]
    now,              \* the database clock, NOW(), in seconds (timestamp(0))
    nextID,           \* the sequence behind flashcards.id
    requests,         \* the number of requests received
    pc,               \* where each worker is in its request
    local,            \* the request's local values (flashcard, user, rows held by tx)
    last,             \* the last call answered and its result
    created,          \* history: id -> the version the card was stored with
    updates,          \* history: id -> number of Update calls that returned nil
    won,              \* history: <<id, v>> such that an Update carrying v returned nil
    reviews           \* history: <<user_id, flashcard_id>> -> the IncrementCorrectCount
                      \*    calls that returned nil since the pair had no row, a
                      \*    seeded row or a reset one (MasteryThreshold + 1: or more)

vars == <<flashcards, user_flashcards, now, nextID, requests, pc, local, last,
          created, updates, won, reviews>>

tables == <<flashcards, user_flashcards>>

\* the ids of cards a request names: those drawn from the sequence so far, and
\* the next one, which no card has yet
CardIDs == 1..nextID

\* the ids a request names: those, and 0, which is the id of no card
ReqIDs == 0..nextID
history == <<created, updates, won>>

NoLocal == [id |-> 0, user |-> "", question |-> "", version |-> 0, rows |-> {}]

\* A request is received.
Receive == requests < MaxRequests /\ requests' = requests + 1

\* The workers are interchangeable: the lowest idle one takes the request.
Takes(p) == pc[p] = "idle" /\ \A q \in Procs : q < p => pc[q] # "idle"

\* What a handler answered: the call, its arguments, the error the model method
\* returned, the version carried into the call, the version the request body
\* carried, the flashcard (or stats) written to the response, and the users
\* whose progress rows the call removed.
Answer(op, id, user, err, version, input_version, ret) ==
    [op |-> op, id |-> id, user |-> user, err |-> err, version |-> version,
     input_version |-> input_version, ret |-> ret, rows |-> {}]

----------------------------------------------------------------------------
\* The rows DELETE FROM user_flashcards WHERE flashcard_id = $1 deletes, by user.
DeletedProgress(id) ==
    {u \in Users : <<u, id>> \in DOMAIN user_flashcards}

\* Faulty variant of Cascade: a foreign key without ON DELETE CASCADE.
CascadeNone(id) == {}

\* The rows of user_flashcards that ON DELETE CASCADE deletes with card id, by user.
Cascade(id) ==
    {u \in Users : <<u, id>> \in DOMAIN user_flashcards}

\* A row held by the open transaction of a worker other than p (0 is no worker).
CardLocked(p, id) ==
    \E q \in Procs \ {p} : pc[q] = "del_card" /\ local[q].id = id

RowLocked(p, u, id) ==
    \E q \in Procs \ {p} :
        pc[q] \in {"del_prog", "del_card"} /\ local[q].id = id /\ u \in local[q].rows

\* Faulty variant of HeldByTx: a statement run with m.DB, outside the
\* transaction, which other sessions read at once.
NotHeldByTx(tbl, written) == written

\* The table other sessions read after a statement of an open transaction
\* (tx.QueryRowContext, tx.ExecContext) has written it: the committed rows.
HeldByTx(tbl, written) == tbl

Remove(tbl, keys) == [k \in DOMAIN tbl \ keys |-> tbl[k]]

Put(tbl, key, row) == [k \in DOMAIN tbl \cup {key} |-> IF k = key THEN row ELSE tbl[k]]

----------------------------------------------------------------------------
(* JSON as encoding/json reads and writes it.  A value is a string, a       *)
(* number, a boolean, an array of strings or null; a document is an object *)
(* (its members by name) or a text json.Unmarshal cannot read into a       *)
(* struct.  A nil slice is not told apart from an empty one.               *)
JNull == [kind |-> "null", str |-> "", num |-> 0, bool |-> FALSE, arr |-> <<>>]
JString(s) == [JNull EXCEPT !.kind = "string", !.str = s]
JNumber(n) == [JNull EXCEPT !.kind = "number", !.num = n]
JBool(b) == [JNull EXCEPT !.kind = "bool", !.bool = b]
JArray(a) == [JNull EXCEPT !.kind = "array", !.arr = a]

EmptyObject == [name \in {} |-> JNull]
RawObject(members) == [syntax |-> "object", members |-> members]
Malformed == [syntax |-> "malformed", members |-> EmptyObject]

\* json.Unmarshal of the member name into a struct field of the given kind: a
\* member of another kind is an error, an absent or null one leaves the zero
\* value, members the struct has no field for are skipped.
Mismatch(o, name, kind) == name \in DOMAIN o /\ o[name].kind \notin {kind, "null"}

Member(o, name, kind) ==
    IF name \in DOMAIN o /\ o[name].kind = kind THEN o[name] ELSE JNull

\* The content of a card whose content could not be decoded.
NoContent == [Justification |-> ""]

\* json.Unmarshal into QAContent, MCQContent and YesNoContent.
UnmarshalQA(raw) ==
    LET o == raw.members IN
    IF \/ raw.syntax # "object"
       \/ Mismatch(o, "answer", "string") \/ Mismatch(o, "justification", "string")
    THEN [err |-> "error", content |-> NoContent]
    ELSE [err |-> "nil",
          content |-> [Answer |-> Member(o, "answer", "string").str,
                       Justification |-> Member(o, "justification", "string").str]]

UnmarshalMCQ(raw) ==
    LET o == raw.members IN
    IF \/ raw.syntax # "object"
       \/ Mismatch(o, "options", "array") \/ Mismatch(o, "correct_index", "number")
       \/ Mismatch(o, "justification", "string")
    THEN [err |-> "error", content |-> NoContent]
    ELSE [err |-> "nil",
          content |-> [Options |-> Member(o, "options", "array").arr,
                       CorrectIndex |-> Member(o, "correct_index", "number").num,
                       Justification |-> Member(o, "justification", "string").str]]

UnmarshalYesNo(raw) ==
    LET o == raw.members IN
    IF \/ raw.syntax # "object"
       \/ Mismatch(o, "correct", "bool") \/ Mismatch(o, "justification", "string")
    THEN [err |-> "error", content |-> NoContent]
    ELSE [err |-> "nil",
          content |-> [Correct |-> Member(o, "correct", "bool").bool,
                       Justification |-> Member(o, "justification", "string").str]]

\* A member tagged omitempty.
OmitEmpty(name, s) == IF s = "" THEN EmptyObject ELSE (name :> JString(s))

\* Faulty variant of Marshal: the index is written under the name of the Go
\* field (a tag json:"correctIndex").
MarshalIndexUntagged(content) ==
    RawObject(
        IF "Answer" \in DOMAIN content
        THEN ("answer" :> JString(content.Answer)) @@
             OmitEmpty("justification", content.Justification)
        ELSE IF "Options" \in DOMAIN content
        THEN ("options" :> JArray(content.Options)) @@
             ("correctIndex" :> JNumber(content.CorrectIndex)) @@
             OmitEmpty("justification", content.Justification)
        ELSE ("correct" :> JBool(content.Correct)) @@
             OmitEmpty("justification", content.Justification))

\* json.Marshal(flashcard.Content): the members of the struct the content is,
\* under the names of its tags.
Marshal(content) ==
    RawObject(
        IF "Answer" \in DOMAIN content
        THEN ("answer" :> JString(content.Answer)) @@
             OmitEmpty("justification", content.Justification)
        ELSE IF "Options" \in DOMAIN content
        THEN ("options" :> JArray(content.Options)) @@
             ("correct_index" :> JNumber(content.CorrectIndex)) @@
             OmitEmpty("justification", content.Justification)
        ELSE ("correct" :> JBool(content.Correct)) @@
             OmitEmpty("justification", content.Justification))

\* The switch of Get and GetAll on the stored flashcard_type.
Unmarshal(type, raw) ==
    CASE type = "qa" -> UnmarshalQA(raw)
      [] type = "mcq" -> UnmarshalMCQ(raw)
      [] type = "yes_no" -> UnmarshalYesNo(raw)
      [] OTHER -> [err |-> "unknown flashcard type", content |-> NoContent]

\* Faulty variant of DecodeContent: every known type is read as QAContent.
DecodeContentAsQA(type, raw) ==
    IF type \in {"qa", "mcq", "yes_no"}
    THEN UnmarshalQA(raw)
    ELSE [err |-> "invalid flashcard type", content |-> NoContent]

\* The switch of createFlashcardHandler and updateFlashcardHandler on
\* input.Type: the content decoded from input.Content, or the error answered.
DecodeContent(type, raw) ==
    CASE type = "qa" -> UnmarshalQA(raw)
      [] type = "mcq" -> UnmarshalMCQ(raw)
      [] type = "yes_no" -> UnmarshalYesNo(raw)
      [] OTHER -> [err |-> "invalid flashcard type", content |-> NoContent]

----------------------------------------------------------------------------
(* The validator: the errors found so far, an ordered collection of        *)
(* (field, message) pairs to which each failed check adds its pair.        *)
New == <<>>

Check(v, ok, key, message) == IF ok THEN v ELSE Append(v, <<key, message>>)

Valid(v) == v = <<>>

\* The fields the errors name.
Fields(v) == {v[i][1] : i \in DOMAIN v}

Unique(values) ==
    \A i, j \in DOMAIN values : i # j => values[i] # values[j]

PermittedValue(value, permittedValues) == value \in permittedValues

\* Faulty variant of CheckContent: an index equal to the number of options
\* passes.
CheckContentIndexInclusive(v, content) ==
    IF "Answer" \in DOMAIN content
    THEN Check(v, content.Answer # "", "flashcard_content.answer", "answer must not be empty")
    ELSE IF "Options" \in DOMAIN content
    THEN Check(Check(Check(v, Len(content.Options) >= 2,
                           "flashcard_content.options", "at least 2 options required"),
                     content.CorrectIndex >= 0 /\ content.CorrectIndex <= Len(content.Options),
                     "flashcard_content.correct_index", "correct index out of bounds"),
               Unique(content.Options),
               "flashcard_content.options", "options must be unique")
    ELSE v

\* createFlashcardHandler: the checks of the content it decoded.
CheckContent(v, content) ==
    IF "Answer" \in DOMAIN content
    THEN Check(v, content.Answer # "", "flashcard_content.answer", "answer must not be empty")
    ELSE IF "Options" \in DOMAIN content
    THEN Check(Check(Check(v, Len(content.Options) >= 2,
                           "flashcard_content.options", "at least 2 options required"),
                     content.CorrectIndex >= 0 /\ content.CorrectIndex < Len(content.Options),
                     "flashcard_content.correct_index", "correct index out of bounds"),
               Unique(content.Options),
               "flashcard_content.options", "options must be unique")
    ELSE v

\* Faulty variant of ValidateFlashcard: no check of the question.
ValidateFlashcardNoQuestion(v, flashcard) ==
    Check(Check(Check(v, flashcard.text # "", "text", "text must be provided"),
                Unique(flashcard.categories), "categories", "categories must be unique"),
          PermittedValue(flashcard.flashcard_type, {"qa", "mcq", "yes_no"}),
          "flashcard_type", "invalid flashcard type")

\* ValidateFlashcard: the errors v holds after its four checks.
ValidateFlashcard(v, flashcard) ==
    Check(Check(Check(Check(v, flashcard.question # "", "question", "question must be provided"),
                      flashcard.text # "", "text", "text must be provided"),
                Unique(flashcard.categories), "categories", "categories must be unique"),
          PermittedValue(flashcard.flashcard_type, {"qa", "mcq", "yes_no"}),
          "flashcard_type", "invalid flashcard type")

\* The flashcard of a request of Spec: its question, and the other fields as a
\* request that passes their checks carries them.
Card(question) ==
    [question |-> question, text |-> "t", categories |-> <<>>, flashcard_type |-> "qa"]

\* Faulty variant of Get: an inner join, which has no row for a user without
\* progress.
GetInnerJoin(id, userID) ==
    IF id < 1 \/ id \notin DOMAIN flashcards \/ <<userID, id>> \notin DOMAIN user_flashcards
    THEN [err |-> "ErrRecordNotFound", ret |-> <<>>]
    ELSE [err |-> "nil",
          ret |-> <<[id |-> id, question |-> flashcards[id].question,
                     version |-> flashcards[id].version,
                     correct_count |-> user_flashcards[<<userID, id>>].correct_count,
                     status |-> user_flashcards[<<userID, id>>].status]>>]

\* FlashcardModel.Get: the card joined with the requesting user's progress.
Get(id, userID) ==
    IF id < 1 \/ id \notin DOMAIN flashcards
    THEN [err |-> "ErrRecordNotFound", ret |-> <<>>]
    ELSE LET f == flashcards[id]
             joined == <<userID, id>> \in DOMAIN user_flashcards
         IN  [err |-> "nil",
              ret |-> <<[id |-> id, question |-> f.question, version |-> f.version,
                         correct_count |-> IF joined
                                           THEN user_flashcards[<<userID, id>>].correct_count
                                           ELSE 0,
                         status |-> IF joined
                                    THEN user_flashcards[<<userID, id>>].status
                                    ELSE "not_started"]>>]

\* Faulty variant of GetUserStats: no WHERE user_id = $1, the rows of every user
\* are counted.
GetUserStatsAllUsers(userID) ==
    LET n(st) == Cardinality({k \in DOMAIN user_flashcards : user_flashcards[k].status = st})
    IN  [total |-> Cardinality(DOMAIN user_flashcards), mastered |-> n("mastered"),
         in_progress |-> n("in_progress"), not_started |-> n("not_started")]

\* FlashcardModel.GetUserStats: the counts of the user's progress rows.
GetUserStats(userID) ==
    LET mine == {k \in DOMAIN user_flashcards : k[1] = userID}
        n(st) == Cardinality({k \in mine : user_flashcards[k].status = st})
    IN  [total |-> Cardinality(mine), mastered |-> n("mastered"),
         in_progress |-> n("in_progress"), not_started |-> n("not_started")]

\* Faulty variant of UpdateMatches: no version condition (WHERE id = $9).
UpdateMatchesAnyVersion(flashcard) == flashcard.id \in DOMAIN flashcards

\* The WHERE clause of Update's statement: id = $9 AND version = $10.
UpdateMatches(flashcard) ==
    /\ flashcard.id \in DOMAIN flashcards
    /\ flashcards[flashcard.id].version = flashcard.version

\* Faulty variants of UpdatedRow: a SET clause that leaves the version, and one
\* that adds 2 to it.
UpdatedRowKeepsVersion(row, flashcard) == [row EXCEPT !.question = flashcard.question]

UpdatedRowSkipsVersion(row, flashcard) ==
    [row EXCEPT !.question = flashcard.question, !.version = row.version + 2]

\* The SET clause of Update's statement.
UpdatedRow(row, flashcard) ==
    [row EXCEPT !.question = flashcard.question, !.version = row.version + 1]

\* Faulty variant of UpdateErr: sql.ErrNoRows reported as ErrRecordNotFound.
UpdateErrNotFound(matched) == IF matched THEN "nil" ELSE "ErrRecordNotFound"

\* The error Update returns: sql.ErrNoRows becomes ErrEditConflict.
UpdateErr(matched) == IF matched THEN "nil" ELSE "ErrEditConflict"

\* The version Insert's statement stores: $9, the version of the flashcard passed in.
InsertedVersion(flashcard) == flashcard.version

\* The progress row Insert seeds for the creating user.
SeedProgress == [correct_count |-> 0, status |-> "not_started", last_reviewed_at |-> now]

\* The tables after tx.Commit of Insert: the card and the creator's progress row.
InsertCommit(p) ==
    <<flashcards @@ (local[p].id :> [question |-> local[p].question,
                                     version |-> local[p].version]),
      user_flashcards @@ (<<local[p].user, local[p].id>> :> SeedProgress)>>

\* Faulty variant of InsertRollback: the card row written outside the
\* transaction, which no rollback removes.
InsertRollbackKeepsCard(p) ==
    <<flashcards @@ (local[p].id :> [question |-> local[p].question,
                                     version |-> local[p].version]),
      user_flashcards>>

\* The tables after the deferred tx.Rollback of Insert: nothing of it is kept.
InsertRollback(p) == <<flashcards, user_flashcards>>

\* Faulty variant of RowsAffected: the count taken to be 1.
RowsAffectedOne(id) == 1

\* result.RowsAffected() of DELETE FROM flashcards WHERE id = $1.
RowsAffected(id) == IF id \in DOMAIN flashcards THEN 1 ELSE 0

\* The tables after tx.Commit of Delete: the rows the transaction deleted are gone.
DeleteCommit(p) ==
    <<Remove(flashcards, {local[p].id}),
      Remove(user_flashcards, {<<u, local[p].id>> : u \in local[p].rows})>>

\* Faulty variants of IncrementedRow: a CASE that masters a card one review
\* late, an update without its WHERE clause, and a WHERE clause moved to the
\* count alone (correct_count = LEAST(correct_count + 1, 5)).
IncrementedRowMasteredLate(row) ==
    IF row.correct_count < MasteryThreshold
    THEN [correct_count |-> row.correct_count + 1,
          status |-> IF row.correct_count + 1 > MasteryThreshold
                     THEN "mastered" ELSE "in_progress",
          last_reviewed_at |-> now]
    ELSE row

IncrementedRowUncapped(row) ==
    [correct_count |-> row.correct_count + 1,
     status |-> IF row.correct_count + 1 >= MasteryThreshold
                THEN "mastered" ELSE "in_progress",
     last_reviewed_at |-> now]

\* Two more faulty variants: an update computed from the proposed row
\* (correct_count = EXCLUDED.correct_count + 1) in place of the stored one, and
\* an update without its WHERE clause whose CASE tests correct_count + 1 = 5.
IncrementedRowFromExcluded(row) ==
    IF row.correct_count < MasteryThreshold
    THEN [correct_count |-> 1 + 1, status |-> "in_progress", last_reviewed_at |-> now]
    ELSE row

IncrementedRowDemotes(row) ==
    [correct_count |-> row.correct_count + 1,
     status |-> IF row.correct_count + 1 = MasteryThreshold
                THEN "mastered" ELSE "in_progress",
     last_reviewed_at |-> now]

\* The upsert of IncrementCorrectCount on an existing row: DO UPDATE ... WHERE
\* correct_count < 5.
IncrementedRow(row) ==
    IF row.correct_count < MasteryThreshold
    THEN [correct_count |-> row.correct_count + 1,
          status |-> IF row.correct_count + 1 >= MasteryThreshold
                     THEN "mastered" ELSE "in_progress",
          last_reviewed_at |-> now]
    ELSE row

\* Faulty variant of FirstReview: an INSERT that leaves the status to the
\* default of the column.
FirstReviewDefaultStatus ==
    [correct_count |-> 1, status |-> "not_started", last_reviewed_at |-> now]

\* The row IncrementCorrectCount inserts when the pair has none.
FirstReview == [correct_count |-> 1, status |-> "in_progress", last_reviewed_at |-> now]

\* Faulty variant of ResetRow: a reset that writes the status of a review.
ResetRowInProgress == [correct_count |-> 0, status |-> "in_progress", last_reviewed_at |-> now]

\* The row ResetCorrectCount leaves, inserted or updated.
ResetRow == [correct_count |-> 0, status |-> "not_started", last_reviewed_at |-> now]

----------------------------------------------------------------------------
Init ==
    /\ flashcards = <<>>
    /\ user_flashcards = <<>>
    /\ now = 0
    /\ nextID = 1
    /\ requests = 0
    /\ pc = [p \in Procs |-> "idle"]
    /\ local = [p \in Procs |-> NoLocal]
    /\ last = Answer("none", 0, "", "nil", 0, 0, <<>>)
    /\ created = <<>>
    /\ updates = <<>>
    /\ won = {}
    /\ reviews = <<>>

\* createFlashcardHandler with a flashcard ValidateFlashcard rejects: no write.
createFlashcardHandler_Invalid(user, question, version) ==
    /\ Receive
    /\ ~Valid(ValidateFlashcard(New, Card(question)))
    /\ last' = Answer("create", 0, "", "validation", 0, 0, <<>>)
    /\ UNCHANGED <<tables, now, nextID, pc, local, history, reviews>>

\* createFlashcardHandler, Insert: BeginTx and the INSERT INTO flashcards, which
\* draws the id from the sequence.  The row is held by the transaction.
Insert_Card(p, user, question, version) ==
    /\ Receive
    /\ Takes(p)
    /\ Valid(ValidateFlashcard(New, Card(question)))
    /\ nextID' = nextID + 1
    /\ pc' = [pc EXCEPT ![p] = "ins_card"]
    /\ local' = [local EXCEPT ![p] =
                    [id |-> nextID, user |-> user, question |-> question,
                     version |-> InsertedVersion([version |-> version]), rows |-> {}]]
    /\ flashcards' = HeldByTx(flashcards,
                              Put(flashcards, nextID,
                                  [question |-> question,
                                   version |-> InsertedVersion([version |-> version])]))
    /\ UNCHANGED <<user_flashcards, now, last, history, reviews>>

\* Insert: the INSERT INTO user_flashcards inside the transaction, and tx.Commit.
Insert_Commit(p) ==
    /\ pc[p] = "ins_card"
    /\ flashcards' = InsertCommit(p)[1]
    /\ user_flashcards' = InsertCommit(p)[2]
    /\ created' = created @@ (local[p].id :> local[p].version)
    /\ updates' = updates @@ (local[p].id :> 0)
    /\ reviews' = Put(reviews, <<local[p].user, local[p].id>>, 0)
    /\ last' = Answer("create", local[p].id, local[p].user, "nil",
                      local[p].version, local[p].version,
                      <<[id |-> local[p].id, question |-> local[p].question,
                         version |-> local[p].version]>>)
    /\ pc' = [pc EXCEPT ![p] = "idle"]
    /\ local' = [local EXCEPT ![p] = NoLocal]
    /\ UNCHANGED <<now, nextID, requests, won>>

\* Insert: the progress insert or the commit failed, or the context timed out,
\* after the card row was written: the deferred tx.Rollback runs.
Insert_Fail(p) ==
    /\ pc[p] = "ins_card"
    /\ flashcards' = InsertRollback(p)[1]
    /\ user_flashcards' = InsertRollback(p)[2]
    /\ last' = Answer("create", local[p].id, "", "error", 0, 0, <<>>)
    /\ pc' = [pc EXCEPT ![p] = "idle"]
    /\ local' = [local EXCEPT ![p] = NoLocal]
    /\ UNCHANGED <<now, nextID, requests, history, reviews>>

\* showFlashcardHandler: Get and the response.
showFlashcardHandler(id, user) ==
    /\ Receive
    /\ last' = Answer("show", id, user, Get(id, user).err, 0, 0, Get(id, user).ret)
    /\ UNCHANGED <<tables, now, nextID, pc, local, history, reviews>>

\* showFlashcardStatsHandler: GetUserStats and the response.
showFlashcardStatsHandler(user) ==
    /\ Receive
    /\ last' = Answer("stats", 0, user, "nil", 0, 0, <<GetUserStats(user)>>)
    /\ UNCHANGED <<tables, now, nextID, pc, local, history, reviews>>

\* updateFlashcardHandler up to its call of Get: not found is answered at once,
\* otherwise the handler holds the flashcard Get returned.
updateFlashcardHandler_Get(p, id, user) ==
    /\ Receive
    /\ Takes(p)
    /\ IF Get(id, user).err # "nil"
       THEN /\ last' = Answer("update", id, "", Get(id, user).err, 0, 0, <<>>)
            /\ UNCHANGED <<pc, local>>
       ELSE /\ pc' = [pc EXCEPT ![p] = "upd_got"]
            /\ local' = [local EXCEPT ![p] =
                            [NoLocal EXCEPT !.id = id,
                                            !.version = Get(id, user).ret[1].version]]
            /\ UNCHANGED last
    /\ UNCHANGED <<tables, now, nextID, history, reviews>>

\* The versions a client can have read of the card the handler holds.
VersionsRead(p) ==
    IF pc[p] = "upd_got" THEN created[local[p].id] .. local[p].version ELSE {}

\* updateFlashcardHandler from readJSON on, for a body ValidateFlashcard rejects.
updateFlashcardHandler_Invalid(p, question, input_version) ==
    /\ pc[p] = "upd_got"
    /\ ~Valid(ValidateFlashcard(New, Card(question)))
    /\ last' = Answer("update", local[p].id, "", "validation",
                      local[p].version, input_version, <<>>)
    /\ pc' = [pc EXCEPT ![p] = "idle"]
    /\ local' = [local EXCEPT ![p] = NoLocal]
    /\ UNCHANGED <<tables, now, nextID, requests, history, reviews>>

\* updateFlashcardHandler from readJSON on: the body's fields are copied into the
\* flashcard Get returned (its version stays the one Get read; input.Version is
\* not used) and Update runs its statement.
updateFlashcardHandler_Update(p, question, input_version) ==
    /\ pc[p] = "upd_got"
    /\ Valid(ValidateFlashcard(New, Card(question)))
    /\ ~CardLocked(p, local[p].id)
    /\ LET flashcard == [id |-> local[p].id, question |-> question,
                         version |-> local[p].version]
           matched == UpdateMatches(flashcard)
       IN  /\ flashcards' =
                 IF matched
                 THEN [flashcards EXCEPT ![flashcard.id] = UpdatedRow(@, flashcard)]
                 ELSE flashcards
           /\ last' = Answer("update", flashcard.id, "", UpdateErr(matched),
                             flashcard.version, input_version,
                             IF matched
                             THEN <<[flashcard EXCEPT
                                       !.version = flashcards'[flashcard.id].version]>>
                             ELSE <<>>)
           /\ updates' = IF matched
                         THEN [updates EXCEPT ![flashcard.id] = @ + 1]
                         ELSE updates
           /\ won' = IF matched
                     THEN won \cup {<<flashcard.id, flashcard.version>>}
                     ELSE won
    /\ pc' = [pc EXCEPT ![p] = "idle"]
    /\ local' = [local EXCEPT ![p] = NoLocal]
    /\ UNCHANGED <<user_flashcards, now, nextID, requests, created, reviews>>

\* deleteFlashcardHandler, Delete with id < 1.
Delete_BadID(id) ==
    /\ Receive
    /\ id < 1
    /\ last' = Answer("delete", id, "", "ErrRecordNotFound", 0, 0, <<>>)
    /\ UNCHANGED <<tables, now, nextID, pc, local, history, reviews>>

\* Delete: BeginTx and DELETE FROM user_flashcards WHERE flashcard_id = $1.
Delete_Progress(p, id) ==
    /\ Receive
    /\ Takes(p)
    /\ id >= 1
    /\ \A u \in DeletedProgress(id) : ~RowLocked(p, u, id)
    /\ pc' = [pc EXCEPT ![p] = "del_prog"]
    /\ local' = [local EXCEPT ![p] = [NoLocal EXCEPT !.id = id, !.rows = DeletedProgress(id)]]
    /\ user_flashcards' = HeldByTx(user_flashcards,
                                   Remove(user_flashcards,
                                          {<<u, id>> : u \in DeletedProgress(id)}))
    /\ UNCHANGED <<flashcards, now, nextID, last, history, reviews>>

\* Delete: DELETE FROM flashcards WHERE id = $1.  No row affected: ErrRecordNotFound
\* and the deferred rollback.  Otherwise the card row, and with it (ON DELETE
\* CASCADE) the progress rows that refer to it, are deleted in the transaction.
Delete_Card(p) ==
    /\ pc[p] = "del_prog"
    /\ IF RowsAffected(local[p].id) = 0
       THEN /\ last' = Answer("delete", local[p].id, "", "ErrRecordNotFound", 0, 0, <<>>)
            /\ pc' = [pc EXCEPT ![p] = "idle"]
            /\ local' = [local EXCEPT ![p] = NoLocal]
       ELSE /\ ~CardLocked(p, local[p].id)
            /\ \A u \in Cascade(local[p].id) : ~RowLocked(p, u, local[p].id)
            /\ pc' = [pc EXCEPT ![p] = "del_card"]
            /\ local' = [local EXCEPT ![p].rows = @ \cup Cascade(local[p].id)]
            /\ UNCHANGED last
    /\ UNCHANGED <<tables, now, nextID, requests, history, reviews>>

\* Delete: tx.Commit.
Delete_Commit(p) ==
    /\ pc[p] = "del_card"
    /\ flashcards' = DeleteCommit(p)[1]
    /\ user_flashcards' = DeleteCommit(p)[2]
    /\ last' = [Answer("delete", local[p].id, "", "nil", 0, 0, <<>>)
                   EXCEPT !.rows = local[p].rows]
    /\ pc' = [pc EXCEPT ![p] = "idle"]
    /\ local' = [local EXCEPT ![p] = NoLocal]
    /\ reviews' = Remove(reviews, {<<u, local[p].id>> : u \in local[p].rows})
    /\ UNCHANGED <<now, nextID, requests, history>>

\* Faulty variants of Upsert: a DO UPDATE that is not restricted to the
\* conflicting row and writes every row of the card, and an INSERT without ON
\* CONFLICT, which the primary key fails for a pair that has a row.
UpsertWholeCard(op, id, userID, inserted, updated) ==
    IF id \in DOMAIN flashcards
    THEN /\ user_flashcards' =
               [k \in DOMAIN user_flashcards \cup {<<userID, id>>} |->
                   IF k[2] = id THEN updated ELSE user_flashcards[k]]
         /\ last' = Answer(op, id, userID, "nil", 0, 0, <<>>)
    ELSE /\ user_flashcards' = user_flashcards
         /\ last' = Answer(op, id, userID, "error", 0, 0, <<>>)

UpsertNoConflictClause(op, id, userID, inserted, updated) ==
    IF <<userID, id>> \notin DOMAIN user_flashcards /\ id \in DOMAIN flashcards
    THEN /\ user_flashcards' = user_flashcards @@ (<<userID, id>> :> inserted)
         /\ last' = Answer(op, id, userID, "nil", 0, 0, <<>>)
    ELSE /\ user_flashcards' = user_flashcards
         /\ last' = Answer(op, id, userID, "error", 0, 0, <<>>)

\* Faulty variant of Upsert: a flashcard_id that does not reference
\* flashcards(id), so that a row is inserted for an id without a card.
UpsertNoForeignKey(op, id, userID, inserted, updated) ==
    LET k == <<userID, id>> IN
    IF k \in DOMAIN user_flashcards
    THEN /\ ~RowLocked(0, userID, id)
         /\ user_flashcards' = [user_flashcards EXCEPT ![k] = updated]
         /\ last' = Answer(op, id, userID, "nil", 0, 0, <<>>)
    ELSE /\ user_flashcards' = user_flashcards @@ (k :> inserted)
         /\ last' = Answer(op, id, userID, "nil", 0, 0, <<>>)

\* The upsert of a progress row for (userID, id).  A pair without a row is
\* inserted, which needs the card (the foreign key): without it the statement
\* fails.  A pair with a row is updated.
Upsert(op, id, userID, inserted, updated) ==
    LET k == <<userID, id>> IN
    IF k \in DOMAIN user_flashcards
    THEN /\ ~RowLocked(0, userID, id)
         /\ user_flashcards' = [user_flashcards EXCEPT ![k] = updated]
         /\ last' = Answer(op, id, userID, "nil", 0, 0, <<>>)
    ELSE IF id \in DOMAIN flashcards
    THEN /\ ~CardLocked(0, id)
         /\ user_flashcards' = user_flashcards @@ (k :> inserted)
         /\ last' = Answer(op, id, userID, "nil", 0, 0, <<>>)
    ELSE /\ user_flashcards' = user_flashcards
         /\ last' = Answer(op, id, userID, "error", 0, 0, <<>>)

\* The calls counted for a pair: none when it has no row.
Reviews(k) == IF k \in DOMAIN reviews THEN reviews[k] ELSE 0

\* FlashcardModel.IncrementCorrectCount: its statement.
IncrementCorrectCount(id, userID) ==
    /\ Upsert("review", id, userID, FirstReview,
              IF <<userID, id>> \in DOMAIN user_flashcards
              THEN IncrementedRow(user_flashcards[<<userID, id>>]) ELSE FirstReview)
    /\ reviews' = IF last'.err = "nil"
                  THEN Put(reviews, <<userID, id>>,
                           IF Reviews(<<userID, id>>) > MasteryThreshold
                           THEN MasteryThreshold + 1
                           ELSE Reviews(<<userID, id>>) + 1)
                  ELSE reviews
    /\ UNCHANGED <<flashcards, now, nextID, pc, local, history>>

\* FlashcardModel.ResetCorrectCount: its statement.
ResetCorrectCount(id, userID) ==
    /\ Upsert("reset", id, userID, ResetRow, ResetRow)
    /\ reviews' = IF last'.err = "nil" THEN Put(reviews, <<userID, id>>, 0) ELSE reviews
    /\ UNCHANGED <<flashcards, now, nextID, pc, local, history>>

\* reviewFlashcardHandler: the request, and IncrementCorrectCount.
reviewFlashcardHandler(id, user) == Receive /\ IncrementCorrectCount(id, user)

\* resetFlashcardHandler: the request, and ResetCorrectCount.
resetFlashcardHandler(id, user) == Receive /\ ResetCorrectCount(id, user)

Next ==
    \/ \E u \in Users, v \in ReqVersions : createFlashcardHandler_Invalid(u, "", v)
    \/ \E p \in Procs, u \in Users, q \in Questions, v \in ReqVersions :
          Insert_Card(p, u, q, v)
    \/ \E p \in Procs : Insert_Commit(p)
    \/ \E p \in Procs : Insert_Fail(p)
    \/ \E id \in ReqIDs, u \in Users : showFlashcardHandler(id, u)
    \/ \E u \in Users : showFlashcardStatsHandler(u)
    \/ \E p \in Procs, id \in CardIDs, u \in Users : updateFlashcardHandler_Get(p, id, u)
    \/ \E p \in Procs, q \in Questions : \E v \in VersionsRead(p) :
          updateFlashcardHandler_Invalid(p, q, v)
    \/ \E p \in Procs, q \in Questions : \E v \in VersionsRead(p) :
          updateFlashcardHandler_Update(p, q, v)
    \/ \E id \in ReqIDs : Delete_BadID(id)
    \/ \E p \in Procs, id \in ReqIDs : Delete_Progress(p, id)
    \/ \E p \in Procs : Delete_Card(p)
    \/ \E p \in Procs : Delete_Commit(p)
    \/ \E id \in CardIDs, u \in Users : reviewFlashcardHandler(id, u)
    \/ \E id \in CardIDs, u \in Users : resetFlashcardHandler(id, u)

Spec == Init /\ [][Next]_vars

----------------------------------------------------------------------------
(* A study session: review and reset requests for one stored card, over    *)
(* the seconds of the clock.  The card and its creator's progress row are  *)
(* what a create request of alice leaves; bob has no row for it.  The      *)
(* states of a session are finitely many, and its requests are not         *)
(* counted.                                                                *)

ProgressInit ==
    /\ flashcards = (1 :> [question |-> "q1", version |-> 1])
    /\ user_flashcards =
          (<<"alice", 1>> :> [correct_count |-> 0, status |-> "not_started",
                              last_reviewed_at |-> 0])
    /\ now = 0
    /\ nextID = 2
    /\ requests = 0
    /\ pc = [p \in Procs |-> "idle"]
    /\ local = [p \in Procs |-> NoLocal]
    /\ last = Answer("none", 0, "", "nil", 0, 0, <<>>)
    /\ created = (1 :> 1)
    /\ updates = (1 :> 0)
    /\ won = {}
    /\ reviews = (<<"alice", 1>> :> 0)

\* A second passes.
Tick ==
    /\ now < MaxTime
    /\ now' = now + 1
    /\ UNCHANGED <<tables, nextID, requests, pc, local, last, history, reviews>>

ProgressNext ==
    \/ Tick
    \/ \E id \in CardIDs, u \in Users : IncrementCorrectCount(id, u) /\ UNCHANGED requests
    \/ \E id \in CardIDs, u \in Users : ResetCorrectCount(id, u) /\ UNCHANGED requests

ProgressSpec == ProgressInit /\ [][ProgressNext]_vars

----------------------------------------------------------------------------
(* The properties of the store.                                            *)

\* The step in which worker p's call of FlashcardModel.Update runs.
UpdateRuns(p) ==
    pc[p] = "upd_got" /\ pc'[p] = "idle" /\ last'.err # "validation"

\* C1: Update on an existing card returns nil if and only if the version the
\* flashcard carries is the stored one; then the stored version is that version
\* plus 1, the stored fields are the flashcard's, and the caller's flashcard
\* carries the new version.
C1_UpdateIffVersionMatches ==
    [][\A p \in Procs :
          (UpdateRuns(p) /\ local[p].id \in DOMAIN flashcards) =>
             LET id == local[p].id
                 v == local[p].version
             IN  /\ (last'.err = "nil") <=> (flashcards[id].version = v)
                 /\ last'.err = "nil" =>
                       /\ flashcards'[id].version = v + 1
                       /\ flashcards'[id].question = last'.ret[1].question
                       /\ last'.ret[1].version = v + 1
                       /\ last'.ret[1].id = id]_vars

C1_Witness ==
    /\ last.op = "update" /\ last.err = "nil"
    /\ flashcards[last.id].version = last.version + 1

\* C2: an update request that is answered with success carried, in its body, the
\* version that was stored when Update ran; a request carrying an older version
\* is answered with an edit conflict.
C2_RequestVersionCompared ==
    (last.op = "update" /\ last.err = "nil") => last.input_version = last.version

\* C3: Update with a version other than the stored one, or for an id that has no
\* card, returns ErrEditConflict and changes no row of either table.
C3_StaleUpdateConflicts ==
    [][\A p \in Procs :
          (/\ UpdateRuns(p)
           /\ \/ local[p].id \notin DOMAIN flashcards
              \/ flashcards[local[p].id].version # local[p].version) =>
             /\ last'.err = "ErrEditConflict"
             /\ flashcards' = flashcards
             /\ user_flashcards' = user_flashcards]_vars

\* the card was deleted between the caller's read and its write
C3_Witness ==
    /\ last.op = "update" /\ last.err = "ErrEditConflict"
    /\ last.id \notin DOMAIN flashcards

\* C4: of the Update calls that carry the same version v of a card, the one that
\* runs while v is stored returns nil and leaves version v + 1 and its own
\* fields; every call that runs after one of them has returned nil returns
\* ErrEditConflict, so that no two of them return nil.
C4_OneWinnerPerVersion ==
    [][\A p \in Procs :
          UpdateRuns(p) =>
             LET id == local[p].id
                 v == local[p].version
             IN  /\ <<id, v>> \in won => last'.err = "ErrEditConflict"
                 /\ (id \in DOMAIN flashcards /\ flashcards[id].version = v) =>
                       /\ last'.err = "nil"
                       /\ flashcards'[id] = [question |-> last'.ret[1].question,
                                             version |-> v + 1]
                 /\ last'.err = "nil" =>
                       \A q \in Procs \ {p} :
                          (pc[q] = "upd_got" /\ local[q].id = id /\ local[q].version = v)
                             => flashcards'[id].version # local'[q].version]_vars

\* a call lost to a concurrent call that carried the same version
C4_Witness ==
    /\ last.op = "update" /\ last.err = "ErrEditConflict"
    /\ <<last.id, last.version>> \in won
    /\ last.id \in DOMAIN flashcards
    /\ flashcards[last.id].version = last.version + 1

\* C5: a card read back after its creation has version 1, whatever version the
\* create request carried.
C5_InsertStoresVersionOne ==
    (last.op = "create" /\ last.err = "nil") =>
        /\ Get(last.id, last.user).ret[1].version = 1
        /\ last.ret[1].version = 1

\* C6: a card stored with version 1 has version 1 + N after N Update calls
\* returned nil for it; the version of a card never decreases, and it changes
\* only in the step of an Update call that returns nil for that card.
C6_VersionCountsUpdates ==
    /\ [](\A id \in DOMAIN flashcards :
             created[id] = 1 => flashcards[id].version = 1 + updates[id])
    /\ [][\A id \in DOMAIN flashcards \cap DOMAIN flashcards' :
             /\ flashcards'[id].version >= flashcards[id].version
             /\ flashcards'[id].version # flashcards[id].version =>
                   /\ last'.op = "update" /\ last'.err = "nil" /\ last'.id = id
                   /\ updates'[id] = updates[id] + 1
             /\ flashcards'[id].version = flashcards[id].version =>
                   updates'[id] = updates[id]]_vars

C6_Witness ==
    \E id \in DOMAIN flashcards :
        created[id] = 1 /\ updates[id] = 2 /\ flashcards[id].version = 3

\* C7: Insert is all or nothing.  A card becomes visible only together with the
\* creating user's progress row (correct_count 0, not_started), no progress row
\* appears for a card that is not visible, and an Insert that fails after the
\* card row was written leaves both tables as they were: Get does not find it.
C7_InsertAllOrNothing ==
    [][/\ \A id \in 1..nextID :
             (id \notin DOMAIN flashcards /\ id \in DOMAIN flashcards') =>
                /\ last'.op = "create" /\ last'.err = "nil" /\ last'.id = id
                /\ <<last'.user, id>> \in DOMAIN user_flashcards'
                /\ user_flashcards'[<<last'.user, id>>].correct_count = 0
                /\ user_flashcards'[<<last'.user, id>>].status = "not_started"
       /\ \A k \in DOMAIN user_flashcards' \ DOMAIN user_flashcards :
             k[2] \in DOMAIN flashcards'
       /\ \A p \in Procs :
             (pc[p] = "ins_card" /\ pc'[p] = "idle" /\ last'.err # "nil") =>
                /\ flashcards' = flashcards
                /\ user_flashcards' = user_flashcards
                /\ local[p].id \notin DOMAIN flashcards'
                /\ \A u \in Users :
                      /\ <<u, local[p].id>> \notin DOMAIN user_flashcards'
                      /\ Get(local[p].id, u)'.err = "ErrRecordNotFound"]_vars

C7_Witness ==
    /\ last.op = "create" /\ last.err = "error" /\ last.id >= 1
    /\ \A u \in Users :
          /\ Get(last.id, u).err = "ErrRecordNotFound"
          /\ <<u, last.id>> \notin DOMAIN user_flashcards

\* C8: when Delete returns nil the card is gone and so is every user's progress
\* row for it, and GetUserStats of a user who had one counts one row less.
C8_DeleteRemovesAllProgress ==
    [][\A p \in Procs :
          (pc[p] = "del_card" /\ pc'[p] = "idle") =>
             LET id == local[p].id
             IN  /\ last'.op = "delete" /\ last'.err = "nil"
                 /\ id \notin DOMAIN flashcards'
                 /\ \A u \in Users :
                       /\ <<u, id>> \notin DOMAIN user_flashcards'
                       /\ GetUserStats(u)'.total =
                             GetUserStats(u).total -
                                (IF <<u, id>> \in DOMAIN user_flashcards THEN 1 ELSE 0)]_vars

\* the delete removed the progress rows of two users
C8_Witness ==
    /\ last.op = "delete" /\ last.err = "nil"
    /\ Cardinality(last.rows) >= 2
    /\ \A k \in DOMAIN user_flashcards : k[2] # last.id

\* C9: Delete for an id without a card (id < 1 included) returns
\* ErrRecordNotFound and changes no row; Delete returns nil only for a card that
\* is stored, and a deleted id has no card ever after, so that the second of two
\* deletes of an id returns ErrRecordNotFound.
C9_DeleteMissingNotFound ==
    [][/\ \A p \in Procs :
             /\ (pc[p] = "del_prog" /\ local[p].id \notin DOMAIN flashcards) =>
                   \/ UNCHANGED <<pc[p], local[p]>>
                   \/ /\ pc'[p] = "idle"
                      /\ last'.op = "delete" /\ last'.err = "ErrRecordNotFound"
                      /\ last'.id = local[p].id
                      /\ flashcards' = flashcards
                      /\ user_flashcards' = user_flashcards
             /\ (pc[p] = "del_card" /\ pc'[p] = "idle") =>
                   /\ local[p].id \in DOMAIN flashcards
                   /\ last'.err = "nil"
                   /\ local[p].id \notin DOMAIN flashcards'
       /\ (last' # last /\ last'.op = "delete" /\ last'.id < 1) =>
             /\ last'.err = "ErrRecordNotFound"
             /\ flashcards' = flashcards
             /\ user_flashcards' = user_flashcards
       /\ \A id \in DOMAIN created :
             id \notin DOMAIN flashcards => id \notin DOMAIN flashcards']_vars

\* the second delete of a card
C9_Witness ==
    /\ last.op = "delete" /\ last.err = "ErrRecordNotFound"
    /\ last.id \in DOMAIN created

\* C10: Get returns ErrRecordNotFound exactly for an id without a card; for a
\* card it returns the card with the requesting user's progress, which is
\* (0, not_started) when the user has no progress row; the show request, which
\* answers with it, changes no row.
C10_GetJoinsOwnProgress ==
    /\ [](\A id \in ReqIDs, u \in Users :
             /\ (Get(id, u).err = "ErrRecordNotFound") <=> (id \notin DOMAIN flashcards)
             /\ id \in DOMAIN flashcards =>
                   /\ Get(id, u).err = "nil"
                   /\ Get(id, u).ret =
                         <<[id |-> id,
                            question |-> flashcards[id].question,
                            version |-> flashcards[id].version,
                            correct_count |->
                               IF <<u, id>> \in DOMAIN user_flashcards
                               THEN user_flashcards[<<u, id>>].correct_count ELSE 0,
                            status |->
                               IF <<u, id>> \in DOMAIN user_flashcards
                               THEN user_flashcards[<<u, id>>].status
                               ELSE "not_started"]>>)
    /\ [][(last' # last /\ last'.op = "show") =>
             /\ flashcards' = flashcards
             /\ user_flashcards' = user_flashcards
             /\ (last'.err = "ErrRecordNotFound") <=> (last'.id \notin DOMAIN flashcards)
             /\ last'.err = "nil" =>
                   /\ last'.ret[1].id = last'.id
                   /\ last'.ret[1].version = flashcards[last'.id].version
                   /\ <<last'.user, last'.id>> \notin DOMAIN user_flashcards =>
                         /\ last'.ret[1].correct_count = 0
                         /\ last'.ret[1].status = "not_started"]_vars

\* a card shown to a user who has no progress row for it
C10_Witness ==
    /\ last.op = "show" /\ last.err = "nil"
    /\ <<last.user, last.id>> \notin DOMAIN user_flashcards
    /\ last.ret[1].correct_count = 0 /\ last.ret[1].status = "not_started"

----------------------------------------------------------------------------
(* The listing of a deck: the last request of a run is a list request of   *)
(* alice, against stored cards that carry here the columns GetAll filters  *)
(* and orders by as well.  The handler's hide_mastered argument is not a   *)
(* parameter of GetAll as the data package has it; the requests leave it   *)
(* at its default, false.  Filters and its methods are modelled from the   *)
(* specification.                                                          *)

\* The text values of the deck, in the order of the database's collation.
Collation == <<"civil.md", "contract law", "land.md", "tort law">>

TextRank(t) == CHOOSE i \in 1..Len(Collation) : Collation[i] = t

\* LOWER(t), on the values stored and requested.
Lower(t) ==
    CASE t = "CIVIL.MD" -> "civil.md"
      [] t = "Rule" -> "rule"
      [] OTHER -> t

\* The lexemes of to_tsvector('simple', t) and of plainto_tsquery('simple', t).
Lexemes(t) ==
    CASE t = "contract law" -> {"contract", "law"}
      [] t = "tort law" -> {"tort", "law"}
      [] t = "Law" -> {"law"}
      [] OTHER -> {}

\* The rows a stored card may be.
StoredCards ==
    {[question |-> "q1", version |-> 1, section |-> sc[1], section_type |-> sc[2],
      source_file |-> sc[3], categories |-> sc[4]] :
        sc \in {<<"contract law", "rule", "civil.md", <<"A", "B">>>>,
                <<"contract law", "case", "land.md", <<"A">>>>,
                <<"tort law", "rule", "land.md", <<"C", "A", "B">>>>}}

\* What a list request may carry.
ReqCategories == {<<>>, <<"A">>, <<"B", "A">>, <<"A", "C">>}
\* section, flashcard_type and file: absent, one of them, or all
ReqTexts == {<<"", "", "">>, <<"Law", "", "">>, <<"", "Rule", "">>, <<"", "", "CIVIL.MD">>,
             <<"Law", "Rule", "CIVIL.MD">>}
ReqPages == 1..(MaxCards + 1)
ReqPageSizes == {0, 1, 2}

\* The sort keys of the handler's safelist.
SortSafelistWithVersion == {"id", "section", "file", "-id", "-section", "-file", "random", "version"}

SortSafelist == {"id", "section", "file", "-id", "-section", "-file", "random"}

ReqSorts == SortSafelist \cup {"", "version"}

\* readString: the value of the key, or the default when the key is absent.
readString(value, defaultValue) == IF value = "" THEN defaultValue ELSE value

\* ValidateFilters: the page is at least 1, the page size within 1..100, the
\* sort key in the safelist.
ValidateFilters(filters) ==
    /\ filters.Page >= 1
    /\ filters.PageSize >= 1 /\ filters.PageSize <= 100
    /\ filters.Sort \in filters.SortSafelist

\* Filters.sortColumn: the column the sort key names.
sortColumn(filters) ==
    CASE filters.Sort \in {"id", "-id"} -> "id"
      [] filters.Sort \in {"section", "-section"} -> "section"
      [] filters.Sort \in {"file", "-file"} -> "source_file"
      [] filters.Sort = "random" -> "RANDOM()"
      [] OTHER -> filters.Sort

\* Filters.sortDirection.
sortDirection(filters) ==
    IF filters.Sort \in {"-id", "-section", "-file"} THEN "DESC" ELSE "ASC"

limit(filters) == filters.PageSize

offset(filters) == (filters.Page - 1) * filters.PageSize

\* calculateMetadata: zero metadata for no record, else the last page is
\* ceil(totalRecords / pageSize).
calculateMetadata(totalRecords, page, pageSize) ==
    IF totalRecords = 0
    THEN [current_page |-> 0, page_size |-> 0, last_page |-> 0, total_records |-> 0]
    ELSE [current_page |-> page, page_size |-> pageSize,
          last_page |-> (totalRecords + pageSize - 1) \div pageSize,
          total_records |-> totalRecords]

\* Faulty variant of ArrayContains: the overlap operator, categories && $5.
ArrayOverlaps(arr, sub) ==
    \E i \in 1..Len(sub) : \E j \in 1..Len(arr) : arr[j] = sub[i]

\* arr @> sub: every element of sub is an element of arr.
ArrayContains(arr, sub) ==
    \A i \in 1..Len(sub) : \E j \in 1..Len(arr) : arr[j] = sub[i]

\* The WHERE clause of GetAll's query.
Matches(f, section, sectionType, sourceFile, categories) ==
    /\ (Lexemes(section) \subseteq Lexemes(f.section) \/ section = "")
    /\ (Lower(f.section_type) = Lower(sectionType) \/ sectionType = "")
    /\ (Lower(f.source_file) = Lower(sourceFile) \/ sourceFile = "")
    /\ (ArrayContains(f.categories, categories) \/ categories = <<>>)

\* The value ORDER BY compares for card id.
SortValue(id, column) ==
    CASE column = "id" -> id
      [] column = "section" -> TextRank(flashcards[id].section)
      [] column = "source_file" -> TextRank(flashcards[id].source_file)
      [] column = "version" -> flashcards[id].version

\* Faulty variant of OrderedBefore: ORDER BY without f.id ASC, which leaves
\* equal values in the order of a descending scan.
OrderedBeforeNoTieBreak(a, b, column, direction) ==
    IF SortValue(a, column) = SortValue(b, column) THEN a > b
    ELSE IF direction = "ASC" THEN SortValue(a, column) < SortValue(b, column)
    ELSE SortValue(a, column) > SortValue(b, column)

\* ORDER BY column direction, f.id ASC: card a comes before card b.
OrderedBefore(a, b, column, direction) ==
    IF SortValue(a, column) = SortValue(b, column) THEN a < b
    ELSE IF direction = "ASC" THEN SortValue(a, column) < SortValue(b, column)
    ELSE SortValue(a, column) > SortValue(b, column)

\* The orders the query's ORDER BY may give the ids: any for RANDOM(), else one.
OrderBy(ids, column, direction) ==
    {o \in [1..Cardinality(ids) -> ids] :
        /\ \A i, j \in 1..Cardinality(ids) : i # j => o[i] # o[j]
        /\ column # "RANDOM()" =>
              \A i, j \in 1..Cardinality(ids) :
                 i < j => OrderedBefore(o[i], o[j], column, direction)}

\* LIMIT $6 OFFSET $7.
LimitOffset(rows, lim, off) ==
    [i \in 1..(IF Len(rows) - off < 0 THEN 0
               ELSE IF Len(rows) - off < lim THEN Len(rows) - off ELSE lim) |->
        rows[off + i]]

\* FlashcardModel.GetAll: the results the query may give.  totalRecords is
\* scanned from the rows returned (count(*) OVER()), and is 0 without one.
GetAll(userID, section, sectionType, sourceFile, categories, filters) ==
    LET matching == {id \in DOMAIN flashcards :
                        Matches(flashcards[id], section, sectionType, sourceFile, categories)}
    IN  {LET rows == LimitOffset(ordered, limit(filters), offset(filters))
             totalRecords == IF rows = <<>> THEN 0 ELSE Len(ordered)
         IN  [flashcards |->
                 [i \in 1..Len(rows) |->
                     [id |-> rows[i],
                      section |-> flashcards[rows[i]].section,
                      section_type |-> flashcards[rows[i]].section_type,
                      source_file |-> flashcards[rows[i]].source_file,
                      categories |-> flashcards[rows[i]].categories,
                      version |-> flashcards[rows[i]].version,
                      correct_count |-> Get(rows[i], userID).ret[1].correct_count,
                      status |-> Get(rows[i], userID).ret[1].status]],
              metadata |-> calculateMetadata(totalRecords, filters.Page, filters.PageSize)] :
            ordered \in OrderBy(matching, sortColumn(filters), sortDirection(filters))}

QueryInit ==
    /\ \E ids \in SUBSET (1..MaxCards) : flashcards \in [ids -> StoredCards]
    /\ user_flashcards =
          [k \in {"alice"} \X DOMAIN flashcards |->
              [correct_count |-> 0, status |-> "not_started", last_reviewed_at |-> 0]]
    /\ now = 0
    /\ nextID = MaxCards + 1
    /\ requests = MaxRequests - 1
    /\ pc = [p \in Procs |-> "idle"]
    /\ local = [p \in Procs |-> NoLocal]
    /\ last = Answer("none", 0, "", "nil", 0, 0, <<>>)
    /\ created = [id \in DOMAIN flashcards |-> 1]
    /\ updates = [id \in DOMAIN flashcards |-> 0]
    /\ won = {}
    /\ reviews = [k \in DOMAIN user_flashcards |-> 0]

\* listFlashcardsHandler: the query string is read into the filters, which are
\* validated; a failed validation is answered before any query, else GetAll runs.
listFlashcardsHandler(user, categories, file, section, qType, page, page_size, sort) ==
    LET paging == [Page |-> page, PageSize |-> page_size,
                   Sort |-> readString(sort, "id"), SortSafelist |-> SortSafelist]
        query == [categories |-> categories, file |-> file, section |-> section,
                  flashcard_type |-> qType, Page |-> page, PageSize |-> page_size,
                  Sort |-> paging.Sort]
    IN  /\ Receive
        /\ IF ~ValidateFilters(paging)
           THEN last' = Answer("list", 0, user, "validation", 0, 0,
                               <<[query |-> [Page |-> page, PageSize |-> page_size,
                                             Sort |-> paging.Sort],
                                  queried |-> FALSE]>>)
           ELSE \E result \in GetAll(user, section, qType, file, categories, paging) :
                   last' = Answer("list", 0, user, "nil", 0, 0,
                                  <<[query |-> query, queried |-> TRUE,
                                     flashcards |-> result.flashcards,
                                     metadata |-> result.metadata]>>)
        /\ UNCHANGED <<tables, now, nextID, pc, local, history, reviews>>

QueryNext ==
    \E c \in ReqCategories, t \in ReqTexts,
       p \in ReqPages, ps \in ReqPageSizes, srt \in ReqSorts :
          listFlashcardsHandler("alice", c, t[3], t[1], t[2], p, ps, srt)

QuerySpec == QueryInit /\ [][QueryNext]_vars

----------------------------------------------------------------------------
(* The properties of the progress records.                                 *)

\* C11: an IncrementCorrectCount call that returns nil gives a pair without a
\* record a record with count 1 and status in_progress; it takes a record with
\* count c < 5 to count c + 1, with status mastered if c + 1 = 5 and in_progress
\* otherwise; it leaves the count and the status of a record with count >= 5.
C11_IncrementTransition ==
    [][\A id \in CardIDs, u \in Users :
          (IncrementCorrectCount(id, u) /\ last'.err = "nil") =>
             LET k == <<u, id>>
             IN  /\ k \in DOMAIN user_flashcards'
                 /\ k \notin DOMAIN user_flashcards =>
                       /\ user_flashcards'[k].correct_count = 1
                       /\ user_flashcards'[k].status = "in_progress"
                 /\ (k \in DOMAIN user_flashcards /\ user_flashcards[k].correct_count < 5) =>
                       /\ user_flashcards'[k].correct_count =
                             user_flashcards[k].correct_count + 1
                       /\ user_flashcards'[k].status =
                             IF user_flashcards[k].correct_count + 1 = 5
                             THEN "mastered" ELSE "in_progress"
                 /\ (k \in DOMAIN user_flashcards /\ user_flashcards[k].correct_count >= 5) =>
                       /\ user_flashcards'[k].correct_count = user_flashcards[k].correct_count
                       /\ user_flashcards'[k].status = user_flashcards[k].status]_vars

\* a pair that had no record was reviewed up to the threshold and once more
C11_Witness ==
    /\ last.op = "review" /\ last.err = "nil" /\ last.user = "bob"
    /\ user_flashcards[<<"bob", last.id>>].correct_count = 5
    /\ user_flashcards[<<"bob", last.id>>].status = "mastered"
    /\ reviews[<<"bob", last.id>>] = 6

\* C12: a pair that had no record or the seeded one (0, not_started), or was
\* reset, and has since had n IncrementCorrectCount calls return nil, has count n
\* and status in_progress for n = 1..4, count 5 and status mastered for n = 5 and
\* for n = 6 and more, and count 0 and status not_started for n = 0.
C12_FiveReviewsMaster ==
    \A k \in DOMAIN user_flashcards :
        /\ k \in DOMAIN reviews
        /\ user_flashcards[k].correct_count = IF reviews[k] < 5 THEN reviews[k] ELSE 5
        /\ user_flashcards[k].status =
              IF reviews[k] = 0 THEN "not_started"
              ELSE IF reviews[k] < 5 THEN "in_progress" ELSE "mastered"

\* the seeded pair after its sixth review
C12_Witness ==
    /\ reviews[<<"alice", 1>>] = 6
    /\ user_flashcards[<<"alice", 1>>].correct_count = 5
    /\ user_flashcards[<<"alice", 1>>].status = "mastered"

\* C13: an IncrementCorrectCount call that returns nil leaves the pair's
\* last_reviewed_at at the time of the call, also when the count was 5.
C13_ReviewRefreshesTimestamp ==
    [][\A id \in CardIDs, u \in Users :
          (IncrementCorrectCount(id, u) /\ last'.err = "nil") =>
             user_flashcards'[<<u, id>>].last_reviewed_at = now]_vars

\* C14: a ResetCorrectCount call that returns nil leaves the pair a record with
\* count 0 and status not_started, whatever it had; a second call right after
\* the first leaves that count and status.
C14_ResetFromEveryState ==
    [][\A id \in CardIDs, u \in Users :
          (ResetCorrectCount(id, u) /\ last'.err = "nil") =>
             LET k == <<u, id>>
             IN  /\ k \in DOMAIN user_flashcards'
                 /\ user_flashcards'[k].correct_count = 0
                 /\ user_flashcards'[k].status = "not_started"
                 /\ (last.op = "reset" /\ last.err = "nil" /\ last.id = id /\ last.user = u) =>
                       /\ user_flashcards'[k].correct_count = user_flashcards[k].correct_count
                       /\ user_flashcards'[k].status = user_flashcards[k].status]_vars

\* a reset, a second later, of the pair that had no record
C14_Witness ==
    /\ last.op = "reset" /\ last.err = "nil" /\ last.user = "bob"
    /\ user_flashcards[<<"bob", last.id>>].correct_count = 0
    /\ user_flashcards[<<"bob", last.id>>].status = "not_started"
    /\ user_flashcards[<<"bob", last.id>>].last_reviewed_at = 1

\* C15: an IncrementCorrectCount or ResetCorrectCount call for (u, c) leaves
\* every card row and every progress record other than that of (u, c) as it was,
\* and neither adds nor removes a record of another pair.
C15_ProgressFrame ==
    [][(/\ last'.op \in {"review", "reset"}
        /\ \/ IncrementCorrectCount(last'.id, last'.user)
           \/ ResetCorrectCount(last'.id, last'.user)) =>
          /\ flashcards' = flashcards
          /\ \A k \in (DOMAIN user_flashcards \cup DOMAIN user_flashcards')
                        \ {<<last'.user, last'.id>>} :
                /\ k \in DOMAIN user_flashcards
                /\ k \in DOMAIN user_flashcards'
                /\ user_flashcards'[k] = user_flashcards[k]]_vars

\* a review of a card another user has a record for, by a user who has a
\* record for another card
C15_Witness ==
    /\ last.op \in {"review", "reset"} /\ last.err = "nil"
    /\ \E k \in DOMAIN user_flashcards : k[2] = last.id /\ k[1] # last.user
    /\ \E k \in DOMAIN user_flashcards : k[1] = last.user /\ k[2] # last.id
    /\ <<last.user, last.id>> \in DOMAIN user_flashcards

\* C16: no pair has two progress records.  An IncrementCorrectCount or
\* ResetCorrectCount call for a pair that has a record, seeded by Insert or left
\* by an earlier call, returns nil and writes that record: the table has the
\* same pairs after it, and each user as many records as before.
C16_OneRecordPerPair ==
    [][(/\ last'.op \in {"review", "reset"}
        /\ <<last'.user, last'.id>> \in DOMAIN user_flashcards
        /\ \/ IncrementCorrectCount(last'.id, last'.user)
           \/ ResetCorrectCount(last'.id, last'.user)) =>
          /\ last'.err = "nil"
          /\ DOMAIN user_flashcards' = DOMAIN user_flashcards
          /\ \A w \in Users : GetUserStats(w)'.total = GetUserStats(w).total]_vars

\* the record Insert seeded, reset by its user after another user's review
C16_Witness ==
    /\ last.op = "reset" /\ last.err = "nil"
    /\ last.id \in DOMAIN created
    /\ \A u \in Users : <<u, last.id>> \in DOMAIN user_flashcards
    /\ \E u \in Users : user_flashcards[<<u, last.id>>].correct_count = 1

----------------------------------------------------------------------------
(* The properties of the listing.                                          *)

\* The elements of an array.
Range(arr) == {arr[i] : i \in 1..Len(arr)}

\* The list request answered with cards and metadata, and what it asked.
Listed == last.op = "list" /\ last.err = "nil"

ListedIDs == {last.ret[1].flashcards[i].id : i \in 1..Len(last.ret[1].flashcards)}

\* The cards the filters of the answered request match, by the specification:
\* every requested label is a category of the card, and the text filters hold.
ListedMatching ==
    LET q == last.ret[1].query
    IN  {id \in DOMAIN flashcards :
            /\ Range(q.categories) \subseteq Range(flashcards[id].categories)
            /\ Matches(flashcards[id], q.section, q.flashcard_type, q.file, <<>>)}

\* C17: a card is among the cards a list request returns, on one page or
\* another, exactly when every requested category label is a category of the
\* card (and the other filters match it); a request without labels is not
\* restricted by category.
C17_CategoryFilterIsContainment ==
    Listed =>
       LET q == last.ret[1].query
           pages == UNION {{r.flashcards[i].id : i \in 1..Len(r.flashcards)} :
                       r \in UNION {GetAll(last.user, q.section, q.flashcard_type, q.file,
                                           q.categories,
                                           [Page |-> p, PageSize |-> q.PageSize,
                                            Sort |-> q.Sort]) : p \in ReqPages}}
       IN  /\ pages = ListedMatching
           /\ \A i \in 1..Len(last.ret[1].flashcards) :
                 Range(q.categories) \subseteq Range(last.ret[1].flashcards[i].categories)
           /\ q.categories = <<>> =>
                 pages = {id \in DOMAIN flashcards :
                            Matches(flashcards[id], q.section, q.flashcard_type, q.file, <<>>)}

\* a request for {A, C}: it returned a card and left out a card tagged {A, B}
C17_Witness ==
    /\ Listed
    /\ last.ret[1].query.categories = <<"A", "C">>
    /\ ListedIDs # {}
    /\ \E id \in DOMAIN flashcards \ ListedIDs : flashcards[id].categories = <<"A", "B">>

\* C18: the metadata of a list answer reports the number of cards the filters
\* match and the last page ceil(total / page size), on every page requested, a
\* page beyond the last one included; it is zero only when no card matches.
C18_MetadataReportsTotal ==
    Listed =>
       LET q == last.ret[1].query
           total == Cardinality(ListedMatching)
       IN  /\ last.ret[1].metadata.total_records = total
           /\ total > 0 =>
                 /\ last.ret[1].metadata.last_page = (total + q.PageSize - 1) \div q.PageSize
                 /\ last.ret[1].metadata.current_page = q.Page

\* C19: for a sort key other than random, the cards of a list answer for page p
\* with page size s are the matching cards at positions (p-1)*s .. (p-1)*s + s - 1
\* of the matching cards ordered by the sort column, in the key's direction, and
\* then by id ascending, in that order.
C19_PageIsSliceOfOrder ==
    (Listed /\ last.ret[1].query.Sort # "random") =>
       LET q == last.ret[1].query
           cards == last.ret[1].flashcards
           value(id) == CASE q.Sort \in {"id", "-id"} -> id
                          [] q.Sort \in {"section", "-section"} ->
                                TextRank(flashcards[id].section)
                          [] q.Sort \in {"file", "-file"} ->
                                TextRank(flashcards[id].source_file)
           descending == q.Sort \in {"-id", "-section", "-file"}
           before(a, b) == IF value(a) = value(b) THEN a < b
                           ELSE IF descending THEN value(a) > value(b)
                           ELSE value(a) < value(b)
           position(id) == Cardinality({x \in ListedMatching : before(x, id)})
           first == (q.Page - 1) * q.PageSize
       IN  /\ Len(cards) =
                 Cardinality({id \in ListedMatching :
                                 position(id) >= first /\ position(id) < first + q.PageSize})
           /\ \A i \in 1..Len(cards) :
                 /\ cards[i].id \in ListedMatching
                 /\ position(cards[i].id) = first + i - 1

\* the second page of two cards of one section, by section descending
C19_Witness ==
    /\ Listed
    /\ last.ret[1].query.Sort = "-section"
    /\ last.ret[1].query.Page = 2 /\ last.ret[1].query.PageSize = 1
    /\ DOMAIN flashcards = {1, 2}
    /\ flashcards[1].section = flashcards[2].section
    /\ ListedIDs = {2}

\* C20: a list request whose sort key is none of id, section, file, -id,
\* -section, -file, random is answered with a validation failure and no query is
\* run for it; a request for which GetAll runs carries one of these keys.
C20_SortKeyOutsideSafelistRejected ==
    last.op = "list" =>
       /\ last.ret[1].query.Sort \notin
             {"id", "section", "file", "-id", "-section", "-file", "random"} =>
                /\ last.err = "validation"
                /\ ~last.ret[1].queried
       /\ last.err = "validation" => ~last.ret[1].queried

\* a request with a valid page and page size, and the sort key version
C20_Witness ==
    /\ last.op = "list" /\ last.err = "validation"
    /\ last.ret[1].query.Sort = "version"
    /\ last.ret[1].query.Page = 1 /\ last.ret[1].query.PageSize = 2
    /\ ~last.ret[1].queried

----------------------------------------------------------------------------
(* A deck in use: card 1, which alice has mastered and bob has answered    *)
(* correctly four times, and the last two requests of a run, served by the *)
(* handlers of Next.                                                       *)

MasteryInit ==
    /\ flashcards = (1 :> [question |-> "q1", version |-> 1])
    /\ user_flashcards =
          (<<"alice", 1>> :> [correct_count |-> MasteryThreshold, status |-> "mastered",
                              last_reviewed_at |-> 0]) @@
          (<<"bob", 1>> :> [correct_count |-> MasteryThreshold - 1, status |-> "in_progress",
                            last_reviewed_at |-> 0])
    /\ now = 0
    /\ nextID = 2
    /\ requests = MaxRequests - 2
    /\ pc = [p \in Procs |-> "idle"]
    /\ local = [p \in Procs |-> NoLocal]
    /\ last = Answer("none", 0, "", "nil", 0, 0, <<>>)
    /\ created = (1 :> 1)
    /\ updates = (1 :> 0)
    /\ won = {}
    /\ reviews = (<<"alice", 1>> :> MasteryThreshold) @@ (<<"bob", 1>> :> MasteryThreshold - 1)

MasterySpec == MasteryInit /\ [][Next]_vars

----------------------------------------------------------------------------
(* The content of cards: create and update requests whose bodies carry the *)
(* text, the categories, the type and the content, served one at a time    *)
(* (Insert and Update are taken as a whole; Spec has their interleavings). *)
(* A run is two requests of alice on an empty store.  A row of flashcards  *)
(* has the columns question, text, categories, flashcard_type,             *)
(* flashcard_content (the JSON document stored), version and created_at.   *)

ReqTypes == {"qa", "mcq", "yes_no", "essay"}

\* the option lists and indexes of the multiple-choice contents requested
ReqOptions == UNION {[1..n -> {"a", "b"}] : n \in 0..MaxOptions}
ReqIndexes == (0 - 1)..MaxOptions

QAPayloads ==
    {RawObject("answer" :> JString(a)) : a \in {"", "a"}} \cup
    {RawObject(("answer" :> JString("a")) @@ ("justification" :> JString("j")))}

MCQPayloads ==
    {RawObject(("options" :> JArray(o)) @@ ("correct_index" :> JNumber(i))) :
        o \in ReqOptions, i \in ReqIndexes} \cup
    {RawObject(("options" :> JArray(<<"a", "b">>)) @@ ("correct_index" :> JNumber(1)) @@
               ("justification" :> JString("j")))}

YesNoPayloads ==
    {RawObject("correct" :> JBool(b)) : b \in BOOLEAN} \cup
    {RawObject(("correct" :> JBool(TRUE)) @@ ("justification" :> JString("j")))}

\* documents with a member of the wrong kind, and a text that is no document
Unreadable ==
    {Malformed, RawObject("answer" :> JNumber(1)), RawObject("options" :> JString("a")),
     RawObject("correct" :> JString("yes"))}

\* the contents requested with a type: those of its shape, the unreadable
\* ones, and one of another shape
ReqContents(type) ==
    CASE type = "qa" ->
            QAPayloads \cup Unreadable \cup
            {RawObject(EmptyObject),
             RawObject(("options" :> JArray(<<"a", "b">>)) @@ ("correct_index" :> JNumber(0)))}
      [] type = "mcq" ->
            MCQPayloads \cup Unreadable \cup {RawObject("answer" :> JString("a"))}
      [] type = "yes_no" ->
            YesNoPayloads \cup Unreadable \cup {RawObject("answer" :> JString("a"))}
      [] OTHER -> {Malformed, RawObject("answer" :> JString("a"))}

\* the other fields of a body: valid, each of them invalid, all of them invalid
ReqFields ==
    {[question |-> "q1", text |-> "t", categories |-> <<"A", "B">>],
     [question |-> "", text |-> "t", categories |-> <<"A", "B">>],
     [question |-> "q1", text |-> "", categories |-> <<"A", "B">>],
     [question |-> "q1", text |-> "t", categories |-> <<"A", "A">>],
     [question |-> "", text |-> "", categories |-> <<"A", "A">>]}

Bodies ==
    UNION {{[question |-> f.question, text |-> f.text, categories |-> f.categories,
             flashcard_type |-> t, flashcard_content |-> c, version |-> 1] :
               f \in ReqFields, c \in ReqContents(t)} : t \in ReqTypes}

\* The row Insert's statement stores for a flashcard.
InsertedRow(flashcard) ==
    [question |-> flashcard.question, text |-> flashcard.text,
     categories |-> flashcard.categories, flashcard_type |-> flashcard.flashcard_type,
     flashcard_content |-> Marshal(flashcard.flashcard_content),
     version |-> InsertedVersion(flashcard), created_at |-> now]

\* Faulty variant of UpdatedColumns: a SET clause with created_at = NOW().
UpdatedColumnsStampsCreation(row, flashcard) ==
    [UpdatedRow(row, flashcard) EXCEPT
        !.text = flashcard.text, !.categories = flashcard.categories,
        !.flashcard_type = flashcard.flashcard_type,
        !.flashcard_content = Marshal(flashcard.flashcard_content),
        !.created_at = now]

\* The SET clause of Update's statement, all its columns.
UpdatedColumns(row, flashcard) ==
    [UpdatedRow(row, flashcard) EXCEPT
        !.text = flashcard.text, !.categories = flashcard.categories,
        !.flashcard_type = flashcard.flashcard_type,
        !.flashcard_content = Marshal(flashcard.flashcard_content)]

\* Get and GetAll: the content of the card read, decoded from the stored
\* document by the stored type.
GetContent(id) == Unmarshal(flashcards[id].flashcard_type, flashcards[id].flashcard_content)

\* What a handler of this section answered with: the body it read, the
\* errors of its validator, and the content it decoded.
Built(input, v, content) == <<[input |-> input, errors |-> v, content |-> content]>>

\* createFlashcardHandler: the content is decoded by the type (an unreadable
\* content or an unknown type is answered 400 at once), checked, the flashcard
\* validated (a failure is answered 422 with the errors) and inserted with the
\* creator's progress row.
createFlashcardHandler(user, input) ==
    /\ Receive
    /\ LET d == DecodeContent(input.flashcard_type, input.flashcard_content)
           flashcard == [question |-> input.question, text |-> input.text,
                         categories |-> input.categories,
                         flashcard_type |-> input.flashcard_type,
                         flashcard_content |-> d.content, version |-> input.version]
           v == ValidateFlashcard(CheckContent(New, d.content), flashcard)
       IN  IF d.err # "nil"
           THEN /\ last' = Answer("create", 0, user, "bad_request", 0, input.version,
                                  Built(input, New, d.content))
                /\ UNCHANGED <<tables, nextID, history, reviews>>
           ELSE IF ~Valid(v)
           THEN /\ last' = Answer("create", 0, user, "validation", 0, input.version,
                                  Built(input, v, d.content))
                /\ UNCHANGED <<tables, nextID, history, reviews>>
           ELSE /\ flashcards' = Put(flashcards, nextID, InsertedRow(flashcard))
                /\ user_flashcards' = Put(user_flashcards, <<user, nextID>>, SeedProgress)
                /\ nextID' = nextID + 1
                /\ created' = created @@ (nextID :> InsertedVersion(flashcard))
                /\ updates' = updates @@ (nextID :> 0)
                /\ reviews' = Put(reviews, <<user, nextID>>, 0)
                /\ last' = Answer("create", nextID, user, "nil",
                                  InsertedVersion(flashcard), input.version,
                                  Built(input, v, d.content))
                /\ UNCHANGED won
    /\ UNCHANGED <<now, pc, local>>

\* updateFlashcardHandler: Get (not found is answered 404), the content decoded
\* by the type as in createFlashcardHandler but not checked, the fields of the
\* body copied into the flashcard Get returned, ValidateFlashcard, and Update.
updateFlashcardHandler(id, user, input) ==
    /\ Receive
    /\ LET got == Get(id, user)
           d == DecodeContent(input.flashcard_type, input.flashcard_content)
           flashcard == [id |-> id, question |-> input.question, text |-> input.text,
                         categories |-> input.categories,
                         flashcard_type |-> input.flashcard_type,
                         flashcard_content |-> d.content,
                         version |-> IF got.err = "nil" THEN got.ret[1].version ELSE 0]
           v == ValidateFlashcard(New, flashcard)
       IN  IF got.err # "nil"
           THEN /\ last' = Answer("update", id, user, got.err, 0, input.version,
                                  Built(input, New, NoContent))
                /\ UNCHANGED <<tables, history>>
           ELSE IF d.err # "nil"
           THEN /\ last' = Answer("update", id, user, "bad_request", flashcard.version,
                                  input.version, Built(input, New, d.content))
                /\ UNCHANGED <<tables, history>>
           ELSE IF ~Valid(v)
           THEN /\ last' = Answer("update", id, user, "validation", flashcard.version,
                                  input.version, Built(input, v, d.content))
                /\ UNCHANGED <<tables, history>>
           ELSE /\ flashcards' =
                      IF UpdateMatches(flashcard)
                      THEN [flashcards EXCEPT ![id] = UpdatedColumns(@, flashcard)]
                      ELSE flashcards
                /\ updates' = IF UpdateMatches(flashcard)
                              THEN [updates EXCEPT ![id] = @ + 1] ELSE updates
                /\ won' = IF UpdateMatches(flashcard)
                          THEN won \cup {<<id, flashcard.version>>} ELSE won
                /\ last' = Answer("update", id, user, UpdateErr(UpdateMatches(flashcard)),
                                  flashcard.version, input.version,
                                  Built(input, v, d.content))
                /\ UNCHANGED <<user_flashcards, created>>
    /\ UNCHANGED <<now, nextID, pc, local, reviews>>

ContentInit ==
    /\ flashcards = <<>>
    /\ user_flashcards = <<>>
    /\ now = 0
    /\ nextID = 1
    /\ requests = MaxRequests - 2
    /\ pc = [p \in Procs |-> "idle"]
    /\ local = [p \in Procs |-> NoLocal]
    /\ last = Answer("none", 0, "", "nil", 0, 0, <<>>)
    /\ created = <<>>
    /\ updates = <<>>
    /\ won = {}
    /\ reviews = <<>>

ContentNext ==
    \/ \E input \in Bodies : createFlashcardHandler("alice", input)
    \/ \E id \in CardIDs, input \in Bodies : updateFlashcardHandler(id, "alice", input)

ContentSpec == ContentInit /\ [][ContentNext]_vars

----------------------------------------------------------------------------
(* An update request of either user, at any second of the clock, for a     *)
(* deck of two cards created at second 0: card 1, which alice has mastered *)
(* and bob has reviewed twice, and card 2 of alice.                        *)

UpdateInit ==
    /\ flashcards =
          (1 :> [question |-> "q1", text |-> "t", categories |-> <<"A", "B">>,
                 flashcard_type |-> "qa",
                 flashcard_content |-> Marshal([Answer |-> "a", Justification |-> ""]),
                 version |-> 1, created_at |-> 0]) @@
          (2 :> [question |-> "q2", text |-> "t", categories |-> <<"A", "B">>,
                 flashcard_type |-> "mcq",
                 flashcard_content |->
                     Marshal([Options |-> <<"a", "b">>, CorrectIndex |-> 1,
                              Justification |-> ""]),
                 version |-> 1, created_at |-> 0])
    /\ user_flashcards =
          (<<"alice", 1>> :> [correct_count |-> MasteryThreshold, status |-> "mastered",
                              last_reviewed_at |-> 0]) @@
          (<<"bob", 1>> :> [correct_count |-> 2, status |-> "in_progress",
                            last_reviewed_at |-> 0]) @@
          (<<"alice", 2>> :> [correct_count |-> 0, status |-> "not_started",
                              last_reviewed_at |-> 0])
    /\ now \in 0..MaxTime
    /\ nextID = 3
    /\ requests = MaxRequests - 1
    /\ pc = [p \in Procs |-> "idle"]
    /\ local = [p \in Procs |-> NoLocal]
    /\ last = Answer("none", 0, "", "nil", 0, 0, <<>>)
    /\ created = (1 :> 1) @@ (2 :> 1)
    /\ updates = (1 :> 0) @@ (2 :> 0)
    /\ won = {}
    /\ reviews = (<<"alice", 1>> :> MasteryThreshold) @@ (<<"bob", 1>> :> 2) @@
                 (<<"alice", 2>> :> 0)

UpdateNext ==
    \E id \in CardIDs, u \in Users, input \in Bodies : updateFlashcardHandler(id, u, input)

UpdateSpec == UpdateInit /\ [][UpdateNext]_vars

----------------------------------------------------------------------------
(* Statistics and mastery.                                                 *)

\* The number of cards 1..n for which the user has a progress record whose
\* status is one of sts.
RECURSIVE Records(_, _, _)
Records(u, sts, n) ==
    IF n = 0 THEN 0
    ELSE Records(u, sts, n - 1) +
         (IF <<u, n>> \in DOMAIN user_flashcards /\ user_flashcards[<<u, n>>].status \in sts
          THEN 1 ELSE 0)

Statuses == {"not_started", "in_progress", "mastered"}

\* C21: GetUserStats(u) reports as total the number of u's progress records
\* and as mastered, in_progress and not_started the numbers of those records
\* with each status; the three add up to the total, the records of other
\* users are not counted, and the statistics handler answers with them.
C21_StatsCountOwnRecords ==
    /\ \A u \in Users :
          LET s == GetUserStats(u)
          IN  /\ s.total = Records(u, Statuses, nextID)
              /\ s.mastered = Records(u, {"mastered"}, nextID)
              /\ s.in_progress = Records(u, {"in_progress"}, nextID)
              /\ s.not_started = Records(u, {"not_started"}, nextID)
              /\ s.mastered + s.in_progress + s.not_started = s.total
    /\ last.op = "stats" =>
          /\ last.err = "nil"
          /\ last.ret[1].total = Records(last.user, Statuses, nextID)
          /\ last.ret[1].mastered = Records(last.user, {"mastered"}, nextID)
          /\ last.ret[1].in_progress = Records(last.user, {"in_progress"}, nextID)
          /\ last.ret[1].not_started = Records(last.user, {"not_started"}, nextID)

\* alice is told of her two records, one mastered and one not started, while
\* bob has a record in progress.
C21_Witness ==
    /\ last.op = "stats"
    /\ last.user = "alice"
    /\ last.ret[1] = [total |-> 2, mastered |-> 1, in_progress |-> 0, not_started |-> 1]
    /\ \E id \in CardIDs : /\ <<"bob", id>> \in DOMAIN user_flashcards
                            /\ user_flashcards[<<"bob", id>>].status = "in_progress"

\* The count a pair has in the table: 0 when it has no record.
CountOf(tbl, k) == IF k \in DOMAIN tbl THEN tbl[k].correct_count ELSE 0

Min(a, b) == IF a < b THEN a ELSE b

\* The row of a pair after k more IncrementCorrectCount calls, each applied to
\* the row the call before it left.
RECURSIVE Increments(_, _)
Increments(row, k) == IF k = 0 THEN row ELSE IncrementedRow(Increments(row, k - 1))

\* C29: IncrementCorrectCount calls for one pair lose no update, in whatever
\* order they and the calls for other pairs are served: a call that succeeds
\* takes the count c of the pair (0 without a record) to min(5, c + 1) and
\* leaves every other pair alone, so k calls take it to min(5, c + k); the
\* status is mastered exactly when the count is 5.
C29_NoLostIncrement ==
    /\ [](\A key \in DOMAIN user_flashcards : \A k \in 0..(MasteryThreshold + 1) :
            LET row == user_flashcards[key]
                after == Increments(row, k)
            IN  /\ after.correct_count = Min(MasteryThreshold, row.correct_count + k)
                /\ (row.status = "mastered") <=> (row.correct_count = MasteryThreshold)
                /\ (after.status = "mastered") <=> (after.correct_count = MasteryThreshold))
    /\ [][\A id \in CardIDs, u \in Users :
            (IncrementCorrectCount(id, u) /\ last'.err = "nil") =>
               /\ CountOf(user_flashcards', <<u, id>>) =
                     Min(MasteryThreshold, CountOf(user_flashcards, <<u, id>>) + 1)
               /\ \A other \in DOMAIN user_flashcards' \ {<<u, id>>} :
                     /\ other \in DOMAIN user_flashcards
                     /\ user_flashcards'[other] = user_flashcards[other]]_vars

\* alice's and bob's reviews of card 1 were served in turn: three calls took
\* alice's seeded record to count 3, bob's two calls made his record count 2
C29_Witness ==
    /\ last.op = "review" /\ last.err = "nil"
    /\ reviews[<<"alice", 1>>] = 3 /\ user_flashcards[<<"alice", 1>>].correct_count = 3
    /\ <<"bob", 1>> \in DOMAIN reviews
    /\ reviews[<<"bob", 1>>] = 2 /\ user_flashcards[<<"bob", 1>>].correct_count = 2

\* C30: a record that is mastered stays mastered with count 5 in every step
\* that is not a reset of its pair or the deletion of its card: a further
\* review, an update of the card and the requests of other users leave it so.
C30_MasteredIsKept ==
    [][\A k \in DOMAIN user_flashcards :
          user_flashcards[k].status = "mastered" =>
             \/ k[2] \notin DOMAIN flashcards'
             \/ /\ last'.op = "reset" /\ last'.user = k[1] /\ last'.id = k[2]
                /\ requests' = requests + 1
             \/ /\ k \in DOMAIN user_flashcards'
                /\ user_flashcards'[k].status = "mastered"
                /\ user_flashcards'[k].correct_count = MasteryThreshold]_vars

\* alice's mastered record of card 1 after one more review of hers and an
\* update of the card
C30_Witness ==
    /\ last.op = "update" /\ last.err = "nil" /\ last.id = 1
    /\ flashcards[1].version = 2
    /\ reviews[<<"alice", 1>>] = MasteryThreshold + 1
    /\ user_flashcards[<<"alice", 1>>].status = "mastered"
    /\ user_flashcards[<<"alice", 1>>].correct_count = MasteryThreshold

----------------------------------------------------------------------------
(* Readers and the transactions of Insert and Delete.                      *)

\* A worker is inside the transaction of Insert or of Delete.
InTx(p) == pc[p] \in {"ins_card", "del_prog", "del_card"}

\* C28: a read (Get, GetUserStats) served while an Insert or a Delete is in
\* flight sees none of its statements: the card of an open Insert is not found
\* and no progress record of it is counted, the progress records an open
\* Delete has removed are still read for as long as its card is, and a step
\* inside either transaction changes the answer of no read.
C28_ReadersSeeNoIntermediateState ==
    /\ [](\A p \in Procs :
            /\ pc[p] = "ins_card" =>
                  \A u \in Users : /\ Get(local[p].id, u).err = "ErrRecordNotFound"
                                   /\ <<u, local[p].id>> \notin DOMAIN user_flashcards
            /\ (pc[p] \in {"del_prog", "del_card"} /\ local[p].id \in DOMAIN flashcards) =>
                  \A u \in local[p].rows : <<u, local[p].id>> \in DOMAIN user_flashcards)
    /\ [][(\E p \in Procs : pc'[p] # pc[p] /\ InTx(p)') =>
             /\ \A id \in ReqIDs, u \in Users : Get(id, u)' = Get(id, u)
             /\ \A u \in Users : GetUserStats(u)' = GetUserStats(u)]_vars

\* alice is shown her card, with her seeded progress on it, while a Delete of
\* the card has removed her progress record and the card and has not committed
C28_Witness ==
    \E p \in Procs :
        /\ pc[p] = "del_card"
        /\ local[p].rows = {"alice"}
        /\ last.op = "show" /\ last.id = local[p].id /\ last.user = "alice"
        /\ last.err = "nil"
        /\ last.ret[1].status = "not_started"
        /\ GetUserStats("alice").total = 1

----------------------------------------------------------------------------
(* Building and storing content.                                           *)

KnownTypes == {"qa", "mcq", "yes_no"}

\* The body of the request last answered.
Input == last.ret[1].input

\* The errors of the request last answered.
Errors == last.ret[1].errors

ContentFields ==
    {"flashcard_content.options", "flashcard_content.correct_index", "flashcard_content.answer"}

\* A document has the members of a content of the type, of their kinds.
HasShape(type, doc) ==
    /\ doc.syntax = "object"
    /\ LET o == doc.members
           required == DOMAIN o \ {"justification"}
       IN  /\ "justification" \in DOMAIN o => o["justification"].kind = "string"
           /\ CASE type = "qa" -> required = {"answer"} /\ o["answer"].kind = "string"
                [] type = "mcq" -> /\ required = {"options", "correct_index"}
                                   /\ o["options"].kind = "array"
                                   /\ o["correct_index"].kind = "number"
                [] type = "yes_no" -> required = {"correct"} /\ o["correct"].kind = "bool"
                [] OTHER -> FALSE

\* C22: a create request for an mcq card whose content is a readable
\* multiple-choice document is answered with a validation error on
\* flashcard_content.options exactly when it has fewer than 2 options or two
\* equal ones, and on flashcard_content.correct_index exactly when the index
\* is outside [0, len(options)); with neither, no content field has an error.
C22_McqChecksOnCreate ==
    (last.op = "create" /\ Input.flashcard_type = "mcq"
        /\ HasShape("mcq", Input.flashcard_content)) =>
       LET opts == Input.flashcard_content.members["options"].arr
           idx == Input.flashcard_content.members["correct_index"].num
           few == Len(opts) < 2
           equal == \E i, j \in 1..Len(opts) : i < j /\ opts[i] = opts[j]
           outside == idx < 0 \/ idx >= Len(opts)
       IN  /\ ("flashcard_content.options" \in Fields(Errors)) <=> (few \/ equal)
           /\ ("flashcard_content.correct_index" \in Fields(Errors)) <=> outside
           /\ (few \/ equal \/ outside) => (last.err = "validation" /\ last.id = 0)
           /\ ~(few \/ equal \/ outside) => Fields(Errors) \cap ContentFields = {}

\* options a, a with index 2: both fields are reported, with the question
C22_Witness ==
    /\ last.op = "create" /\ last.err = "validation"
    /\ Input.flashcard_type = "mcq"
    /\ Input.flashcard_content =
          RawObject(("options" :> JArray(<<"a", "a">>)) @@ ("correct_index" :> JNumber(2)))
    /\ Fields(Errors) =
          {"flashcard_content.options", "flashcard_content.correct_index", "question",
           "text", "categories"}

\* C23: a create request whose content does not decode for its type, or whose
\* type is unknown, is answered with a validation error that names the
\* content or the type and every other violated field.
C23_EveryViolationReported ==
    (last.op = "create"
        /\ DecodeContent(Input.flashcard_type, Input.flashcard_content).err # "nil") =>
       /\ last.err = "validation"
       /\ Input.flashcard_type \notin KnownTypes => "flashcard_type" \in Fields(Errors)
       /\ Input.flashcard_type \in KnownTypes => "flashcard_content" \in Fields(Errors)
       /\ Input.question = "" => "question" \in Fields(Errors)
       /\ Input.text = "" => "text" \in Fields(Errors)
       /\ ~Unique(Input.categories) => "categories" \in Fields(Errors)

\* C24: a create or update request with an empty question or text, repeated
\* categories, an unknown type or a content that does not decode, and any
\* request answered with a validation error or 400, is answered with an error
\* and leaves the cards and the progress records as they were.
C24_RejectedRequestWritesNothing ==
    [][(last'.op \in {"create", "update"} /\ requests' = requests + 1) =>
          LET input == last'.ret[1].input
              rejected ==
                  \/ input.question = "" \/ input.text = ""
                  \/ \E i, j \in DOMAIN input.categories :
                        i < j /\ input.categories[i] = input.categories[j]
                  \/ input.flashcard_type \notin KnownTypes
                  \/ Unmarshal(input.flashcard_type, input.flashcard_content).err # "nil"
          IN  (rejected \/ last'.err \in {"validation", "bad_request"}) =>
                 /\ last'.err # "nil"
                 /\ flashcards' = flashcards
                 /\ user_flashcards' = user_flashcards
                 /\ nextID' = nextID]_vars

\* a stored card after an update of it was rejected for its question
C24_Witness ==
    /\ last.op = "update" /\ last.err = "validation"
    /\ last.id \in DOMAIN flashcards
    /\ Input.question = "" /\ flashcards[last.id].question = "q1"
    /\ flashcards[last.id].version = 1
    /\ Fields(Errors) = {"question"}

C26_ContentRoundTrips ==
    (last.op \in {"create", "update"} /\ last.err = "nil") =>
       LET c == last.ret[1].content
       IN  /\ GetContent(last.id).err = "nil"
           /\ GetContent(last.id).content = c
           /\ Unmarshal(Input.flashcard_type, Marshal(c)) = [err |-> "nil", content |-> c]

\* an update stored options a, b with index 1 and a justification
C26_Witness ==
    /\ last.op = "update" /\ last.err = "nil"
    /\ flashcards[last.id].flashcard_type = "mcq"
    /\ GetContent(last.id).content =
          [Options |-> <<"a", "b">>, CorrectIndex |-> 1, Justification |-> "j"]

\* C27: every stored mcq card has at least 2 options, no two of them equal,
\* and an index within them, and every stored qa card has an answer.
C27_StoredContentIsValid ==
    \A id \in DOMAIN flashcards :
        LET c == GetContent(id).content
        IN  /\ flashcards[id].flashcard_type = "mcq" =>
                  /\ Len(c.Options) >= 2
                  /\ \A i, j \in 1..Len(c.Options) : i < j => c.Options[i] # c.Options[j]
                  /\ 0 <= c.CorrectIndex /\ c.CorrectIndex < Len(c.Options)
            /\ flashcards[id].flashcard_type = "qa" => c.Answer # ""

----------------------------------------------------------------------------
(* Progress records and their cards.                                       *)

\* C31: every progress record is of a card that exists, whatever the order in
\* which the steps of Delete, the commits of Insert and the review and reset
\* calls are served; a review or reset for an id without a card fails and
\* writes no record.
C31_NoOrphanProgress ==
    /\ [](\A k \in DOMAIN user_flashcards : k[2] \in DOMAIN flashcards)
    /\ [][(/\ last'.op \in {"review", "reset"}
            /\ requests' = requests + 1
            /\ last'.id \notin DOMAIN flashcards) =>
              /\ last'.err # "nil"
              /\ user_flashcards' = user_flashcards]_vars

\* bob's review of alice's card made his record after a Delete of the card
\* had removed hers and before it removed the card
C31_Witness ==
    \E p \in Procs :
        /\ pc[p] = "del_prog"
        /\ local[p].rows = {"alice"}
        /\ last.op = "review" /\ last.err = "nil"
        /\ last.user = "bob" /\ last.id = local[p].id
        /\ <<"bob", local[p].id>> \in DOMAIN user_flashcards

\* C32: a successful update changes the question, text, categories, type and
\* content of its card to those of the request and adds 1 to its version; the
\* card keeps its id and its creation time, the other cards are unchanged, and
\* so is every progress record.
C32_UpdateFrame ==
    [][(last'.op = "update" /\ last'.err = "nil" /\ requests' = requests + 1) =>
          LET id == last'.id
              input == last'.ret[1].input
          IN  /\ DOMAIN flashcards' = DOMAIN flashcards
              /\ id \in DOMAIN flashcards
              /\ \A other \in DOMAIN flashcards \ {id} : flashcards'[other] = flashcards[other]
              /\ flashcards'[id].created_at = flashcards[id].created_at
              /\ flashcards'[id].version = flashcards[id].version + 1
              /\ flashcards'[id].question = input.question
              /\ flashcards'[id].text = input.text
              /\ flashcards'[id].categories = input.categories
              /\ flashcards'[id].flashcard_type = input.flashcard_type
              /\ Unmarshal(flashcards'[id].flashcard_type,
                           flashcards'[id].flashcard_content).content = last'.ret[1].content
              /\ user_flashcards' = user_flashcards
              /\ nextID' = nextID]_vars

\* a second after its creation bob made card 1, which alice has mastered, a
\* multiple-choice card
C32_Witness ==
    /\ last.op = "update" /\ last.err = "nil" /\ last.user = "bob" /\ last.id = 1
    /\ now >= 1
    /\ DOMAIN flashcards = {1, 2}
    /\ flashcards[1].created_at = 0 /\ flashcards[1].version = 2
    /\ flashcards[1].flashcard_type = "mcq"
    /\ flashcards[2].version = 1
    /\ user_flashcards[<<"alice", 1>>].status = "mastered"
    /\ user_flashcards[<<"bob", 1>>].correct_count = 2

\* C33: every progress record has a count from 0 to 5 and the status of its
\* count: not_started for 0, in_progress for 1 to 4, mastered for 5.
C33_StatusFollowsCount ==
    \A k \in DOMAIN user_flashcards :
        LET row == user_flashcards[k]
        IN  /\ row.correct_count \in 0..MasteryThreshold
            /\ row.status \in Statuses
            /\ (row.status = "not_started") <=> (row.correct_count = 0)
            /\ (row.status = "in_progress") <=> (row.correct_count \in 1..(MasteryThreshold - 1))
            /\ (row.status = "mastered") <=> (row.correct_count = MasteryThreshold)

\* bob's first review of a card alice has just created, beside her mastered
\* record, her seeded record and his record of count 4
C33_Witness ==
    /\ last.op = "review" /\ last.err = "nil" /\ last.user = "bob" /\ last.id = 2
    /\ {<<"alice", 1>>, <<"bob", 1>>, <<"alice", 2>>, <<"bob", 2>>} \subseteq
          DOMAIN user_flashcards
    /\ user_flashcards[<<"bob", 2>>].correct_count = 1
    /\ user_flashcards[<<"alice", 2>>].status = "not_started"
    /\ user_flashcards[<<"alice", 1>>].status = "mastered"
    /\ user_flashcards[<<"bob", 1>>].correct_count = MasteryThreshold - 1
====
